---- MODULE Spec2Model ----
(***************************************************************************)
(* A model of package vql (creachadair/vql): the reflective query          *)
(* evaluator Eval and the combinators Self, Const, Seq, Key, Each, Select, *)
(* Map, Func, Index, Or, List and Cat.                                     *)
(*                                                                         *)
(* Go values are records tagged with their reflect.Kind (field k) and      *)
(* their dynamic type (field t).  A query is a record tagged with its      *)
(* combinator (field op).  Evaluation is big-step: eval(q, v, tr) is the   *)
(* SET of results q.eval(v) can produce, because ranging over a Go map     *)
(* (forEach on a map input, Map.eval on its own names) visits the entries  *)
(* in an order the language leaves unspecified.  tr is the sequence of     *)
(* calls made so far to the functions wrapped by Func queries: it is the   *)
(* side effect of an evaluation that a caller can observe.                 *)
(***************************************************************************)
EXTENDS Integers, Sequences, FiniteSets, TLC

\* ---------------------------------------------------------------- bounds
MaxLen == 2     \* longest slice among the generated inputs
MaxArgs == 2    \* most sub-queries of a generated Seq, Or, List or Cat
MaxRuns == 2    \* Eval calls made on one (query, input) pair
MaxCallers == 2 \* Eval calls that run at the same time on one query

\* ------------------------------------------------------------- Go values
\* The nil interface value: the "no value" marker; reflect.ValueOf(nil) is
\* the invalid reflect.Value.
NilV == [k |-> "invalid", t |-> "nil"]
IntV(n) == [k |-> "int", t |-> "int", n |-> n]
StrV(s) == [k |-> "string", t |-> "string", s |-> s]
BoolV(b) == [k |-> "bool", t |-> "bool", b |-> b]
\* A slice of dynamic type t with elements e (a nil slice and an empty slice
\* are both e = << >>: both are non-nil interface values of length 0).
Slice(t, e) == [k |-> "slice", t |-> t, e |-> e]
\* A struct of type t; f maps each field name to the field's value.
Struct(t, f) == [k |-> "struct", t |-> t, f |-> f]
\* A non-nil pointer of type t to x, and the nil pointer of type t.
Ptr(t, x) == [k |-> "ptr", t |-> t, isnil |-> FALSE, to |-> x]
NilPtr(t) == [k |-> "ptr", t |-> t, isnil |-> TRUE, to |-> NilV]
\* A map of type t whose key type is kt; m maps each key to its value.
MapV(t, kt, m) == [k |-> "map", t |-> t, kt |-> kt, m |-> m]

IfaceSlice(e) == Slice("[]interface {}", e)

\* The set of sequences over S without repetition that enumerate S.
Perms(S) ==
  {p \in [1..Cardinality(S) -> S] : \A i, j \in 1..Cardinality(S) : p[i] = p[j] => i = j}

\* ----------------------------------------------------------- value cells
NoCell == [none |-> TRUE]
\* site is "eval" for a cell allocated during an Eval call and "const" for
\* the cell Const allocates when the query is built.
newValueAt(obj, site) == [val |-> obj, parent |-> NoCell, site |-> site]
newValue(obj) == newValueAt(obj, "eval")
pushValue(v, obj) == [val |-> obj, parent |-> v, site |-> "eval"]

\* ---------------------------------------------------------------- errors
NoErr == [e |-> "none"]
IsErr(err) == err.e # "none"
ErrFieldName(key) == [e |-> "cannot be a field name", t |-> key.t]
ErrMapKey(key) == [e |-> "cannot be a key in this map", t |-> key.t]
ErrNotStructOrMap(val) == [e |-> "is not a struct or map", t |-> val.t]
ErrNotContainer(val) == [e |-> "is not an array, map, or slice", t |-> val.t]
ErrNotSeq(val) == [e |-> "is not an array or slice", t |-> val.t]
ErrNotBool(val) == [e |-> "select query yielded, not bool", t |-> val.t]
ErrNotAssignable(val, argType) == [e |-> "is not assignable to", t |-> val.t, to |-> argType]
ErrRange(offset, len) == [e |-> "is out of range for 0..", off |-> offset, len |-> len]
ErrSubquery(key, err) == [e |-> "evaluating subquery", name |-> key, inner |-> err]
ErrFunc(msg) == [e |-> "func", msg |-> msg]
\* A panic during the evaluation: it unwinds every caller up to Eval's.
Panic(msg, t) == [e |-> "panic", msg |-> msg, t |-> t]
IsPanic(err) == err.e = "panic"

\* A result of q.eval: the cell and the error it returns, and the calls made.
Res(cell, err, tr) == [cell |-> cell, err |-> err, tr |-> tr]

\* --------------------------------------------------------------- queries
Self == [op |-> "Self"]
Const(obj) == [op |-> "Const", value |-> newValueAt(obj, "const")]
SeqQ(qs) == [op |-> "Seq", qs |-> qs]
keyQuery(key) == [op |-> "keyQuery", key |-> key]
\* Key looking the keys up from the last to the first.
KeyReversed(keys) == SeqQ([i \in 1..Len(keys) |-> keyQuery(keys[Len(keys) + 1 - i])])
Key(keys) == SeqQ([i \in 1..Len(keys) |-> keyQuery(keys[i])])
Each(q) == [op |-> "mapQuery", q |-> q]
Select(qs) == [op |-> "selectQuery", q |-> SeqQ(qs)]
Map(m) == [op |-> "Map", m |-> m]
Index(i) == [op |-> "indexQuery", i |-> i]
Or(qs) == [op |-> "Or", qs |-> qs]
List(qs) == [op |-> "List", qs |-> qs]
Cat(qs) == [op |-> "Cat", qs |-> qs]

\* ------------------------------------------- functions wrapped by Func
\* The values handed to Func, with the shape of their signature: whether the
\* value is a function at all, its numIn parameters (the first of type
\* argType), its numOut results, and whether the last of two results is the
\* error type, and whether the function is variadic.  The first six are the
\* functions of the package and its tests; the next six are values Func is
\* documented to reject; sumOf is func(xs ...int) int, a variadic function
\* of one parameter, whose In(0) is []int.
FuncTable ==
  [IsNil      |-> [isFunc |-> TRUE, numIn |-> 1, argType |-> "interface {}", numOut |-> 1, lastIsErr |-> FALSE, isVariadic |-> FALSE],
   NotNil     |-> [isFunc |-> TRUE, numIn |-> 1, argType |-> "interface {}", numOut |-> 1, lastIsErr |-> FALSE, isVariadic |-> FALSE],
   hasPrefixP |-> [isFunc |-> TRUE, numIn |-> 1, argType |-> "string", numOut |-> 1, lastIsErr |-> FALSE, isVariadic |-> FALSE],
   gt20       |-> [isFunc |-> TRUE, numIn |-> 1, argType |-> "int", numOut |-> 1, lastIsErr |-> FALSE, isVariadic |-> FALSE],
   noThanks   |-> [isFunc |-> TRUE, numIn |-> 1, argType |-> "[]string", numOut |-> 2, lastIsErr |-> TRUE, isVariadic |-> FALSE],
   firstOf    |-> [isFunc |-> TRUE, numIn |-> 1, argType |-> "[]string", numOut |-> 2, lastIsErr |-> TRUE, isVariadic |-> FALSE],
   notAFunc       |-> [isFunc |-> FALSE, numIn |-> 0, argType |-> "int", numOut |-> 0, lastIsErr |-> FALSE, isVariadic |-> FALSE],
   noParams       |-> [isFunc |-> TRUE, numIn |-> 0, argType |-> "int", numOut |-> 1, lastIsErr |-> FALSE, isVariadic |-> FALSE],
   twoParams      |-> [isFunc |-> TRUE, numIn |-> 2, argType |-> "int", numOut |-> 1, lastIsErr |-> FALSE, isVariadic |-> FALSE],
   noResults      |-> [isFunc |-> TRUE, numIn |-> 1, argType |-> "int", numOut |-> 0, lastIsErr |-> FALSE, isVariadic |-> FALSE],
   threeResults   |-> [isFunc |-> TRUE, numIn |-> 1, argType |-> "int", numOut |-> 3, lastIsErr |-> TRUE, isVariadic |-> FALSE],
   secondNotError |-> [isFunc |-> TRUE, numIn |-> 1, argType |-> "int", numOut |-> 2, lastIsErr |-> FALSE, isVariadic |-> FALSE],
   sumOf          |-> [isFunc |-> TRUE, numIn |-> 1, argType |-> "[]int", numOut |-> 1, lastIsErr |-> FALSE, isVariadic |-> TRUE]]

FuncArgs == DOMAIN FuncTable

\* Func panics unless v is a function of one parameter with one result, or
\* with two results of which the second is error.
FuncPanics(sig) ==
  \/ ~sig.isFunc
  \/ sig.numIn # 1
  \/ sig.numOut < 1 \/ sig.numOut > 2
  \/ sig.numOut = 2 /\ ~sig.lastIsErr

\* The Query Func returns when it does not panic.
Func(name) == [op |-> "fnQuery", fn |-> name, argType |-> FuncTable[name].argType]

\* The functions Func accepts.
FuncNames == {name \in FuncArgs : ~FuncPanics(FuncTable[name])}

\* reflect.New(argType).Elem(): the zero value of the parameter type.
ZeroOf(argType) ==
  CASE argType = "interface {}" -> NilV
    [] argType = "string" -> StrV("")
    [] argType = "int" -> IntV(0)
    [] argType = "bool" -> BoolV(FALSE)
    [] OTHER -> Slice(argType, << >>)

\* Type.AssignableTo for the types of the model: identical types, and every
\* type to the empty interface.
AssignableTo(t, target) == t = target \/ target = "interface {}"

\* Type.Elem of the slice types of the model.
ElemType(t) ==
  CASE t = "[]int" -> "int"
    [] t = "[]string" -> "string"
    [] OTHER -> "interface {}"

\* Value.Call on a variadic function takes each argument from the variadic
\* parameter on as one element of it, and panics when the argument is not
\* assignable to the element type.
CallPanics(name, arg) ==
  FuncTable[name].isVariadic /\ ~AssignableTo(arg.t, ElemType(FuncTable[name].argType))

PrefixP == {"pear", "plum", "pie"}

\* a.fn.Call: the results of the function name on arg; err is NoErr when the
\* function has no error result or returns a nil error.
Call(name, arg) ==
  CASE name = "IsNil" -> [res |-> BoolV(arg = NilV), err |-> NoErr]
    [] name = "NotNil" -> [res |-> BoolV(arg # NilV), err |-> NoErr]
    [] name = "hasPrefixP" -> [res |-> BoolV(arg.s \in PrefixP), err |-> NoErr]
    [] name = "gt20" -> [res |-> BoolV(arg.n > 20), err |-> NoErr]
    [] name = "noThanks" -> [res |-> StrV(""), err |-> ErrFunc("I say no thank you sir")]
    [] name = "firstOf" ->
         IF Len(arg.e) = 0 THEN [res |-> StrV(""), err |-> ErrFunc("empty")]
         ELSE [res |-> arg.e[1], err |-> NoErr]
    [] OTHER -> [res |-> arg, err |-> NoErr]

\* ------------------------------------------------------------ reflection
\* reflect.Indirect: the pointee of a pointer (the invalid Value for a nil
\* pointer), any other value unchanged.
Indirect(val) == IF val.k = "ptr" THEN val.to ELSE val

IsSeqKind(val) == val.k \in {"array", "slice"}

\* seqValue: the value as a sequence, or an error.
seqValue(val) ==
  IF ~IsSeqKind(val) THEN [rv |-> NilV, err |-> ErrNotSeq(val)]
  ELSE [rv |-> val, err |-> NoErr]

Entry(key, value) == Struct("vql.Entry", [Key |-> key, Value |-> value])

\* forEach handing the callback the value of a map entry in place of the
\* Entry.
forEachPassesValues(val) ==
  CASE IsSeqKind(val) -> [orders |-> {val.e}, err |-> NoErr]
    [] val.k = "map" ->
         [orders |-> {[i \in 1..Len(p) |-> val.m[p[i]]] : p \in Perms(DOMAIN val.m)},
          err |-> NoErr]
    [] OTHER -> [orders |-> {}, err |-> ErrNotContainer(val)]

\* forEach taking a value of any other kind for an empty container.
forEachNothingToVisit(val) ==
  CASE IsSeqKind(val) -> [orders |-> {val.e}, err |-> NoErr]
    [] val.k = "map" ->
         [orders |-> {[i \in 1..Len(p) |-> Entry(p[i], val.m[p[i]])] : p \in Perms(DOMAIN val.m)},
          err |-> NoErr]
    [] OTHER -> [orders |-> {<< >>}, err |-> NoErr]

\* forEach, the iteration part: the orders in which forEach can hand the
\* elements of val to its callback (one order for an array or slice, every
\* order of the entries for a map), or the error for any other kind.
forEach(val) ==
  CASE IsSeqKind(val) -> [orders |-> {val.e}, err |-> NoErr]
    [] val.k = "map" ->
         [orders |-> {[i \in 1..Len(p) |-> Entry(p[i], val.m[p[i]])] : p \in Perms(DOMAIN val.m)},
          err |-> NoErr]
    [] OTHER -> [orders |-> {}, err |-> ErrNotContainer(val)]

\* ------------------------------------------------------------ evaluation
RECURSIVE eval(_, _, _)
RECURSIVE SeqEval(_, _, _, _)
RECURSIVE SeqEvalStopsQuietly(_, _, _, _)
RECURSIVE SeqEvalSameInput(_, _, _, _)
RECURSIVE EachLoop(_, _, _, _, _, _)
RECURSIVE EachLoopSkipsFailed(_, _, _, _, _, _)
RECURSIVE EachLoopPrepends(_, _, _, _, _, _)
RECURSIVE SelectLoop(_, _, _, _, _)
RECURSIVE SelectLoopSkipsNonBool(_, _, _, _, _)
RECURSIVE SelectLoopKeepsResult(_, _, _, _, _)
RECURSIVE MapLoop(_, _, _, _, _, _)
RECURSIVE MapLoopThreads(_, _, _, _, _, _)
RECURSIVE MapLoopBareError(_, _, _, _, _, _)
RECURSIVE OrEval(_, _, _, _)
RECURSIVE OrEvalAcceptsNil(_, _, _, _)
RECURSIVE OrEvalSkipsNilPointer(_, _, _, _)
RECURSIVE OrEvalNoShortCircuit(_, _, _, _)
RECURSIVE ListEval(_, _, _, _, _)
RECURSIVE ListEvalFlattens(_, _, _, _, _)
RECURSIVE CatEval(_, _, _, _, _)
RECURSIVE CatEvalNoFlatten(_, _, _, _, _)

\* selfQueryEval yielding nil for every input.
selfQueryEvalYieldsNil(v, tr) == {Res(pushValue(v, NilV), NoErr, tr)}
selfQueryEval(v, tr) == {Res(v, NoErr, tr)}

\* constQueryEval yielding its input, as Self does.
constQueryEvalYieldsInput(c, v, tr) == {Res(v, NoErr, tr)}
constQueryEval(c, v, tr) == {Res(c.value, NoErr, tr)}

\* SeqEval stopping without an error at a step that fails.
SeqEvalStopsQuietly(s, i, v, tr) ==
  IF i > Len(s) THEN {Res(v, NoErr, tr)}
  ELSE UNION {IF IsErr(next.err) THEN {Res(v, NoErr, next.tr)}
              ELSE SeqEvalStopsQuietly(s, i + 1, next.cell, next.tr) : next \in eval(s[i], v, tr)}

\* SeqEval handing every element the cell the Seq itself received.
SeqEvalSameInput(s, i, v, tr) ==
  IF i > Len(s) THEN {Res(v, NoErr, tr)}
  ELSE UNION {IF IsErr(next.err) THEN {Res(v, next.err, next.tr)}
              ELSE IF i = Len(s) THEN {Res(next.cell, NoErr, next.tr)}
              ELSE SeqEvalSameInput(s, i + 1, v, next.tr) : next \in eval(s[i], v, tr)}

\* Seq.eval from its i-th element on, with current cell v.
SeqEval(s, i, v, tr) ==
  IF i > Len(s) THEN {Res(v, NoErr, tr)}
  ELSE UNION {IF IsErr(next.err) THEN {Res(v, next.err, next.tr)}
              ELSE SeqEval(s, i + 1, next.cell, next.tr) : next \in eval(s[i], v, tr)}

\* keyQueryEval without following the pointer.
keyQueryEvalNoIndirect(key, v, tr) ==
  LET rv == v.val IN
  IF rv.k = "struct" THEN
    IF key.t = "string" THEN
      IF key.s \in DOMAIN rv.f THEN {Res(pushValue(v, rv.f[key.s]), NoErr, tr)}
      ELSE {Res(pushValue(v, NilV), NoErr, tr)}
    ELSE {Res(NoCell, ErrFieldName(key), tr)}
  ELSE IF rv.k = "map" THEN
    IF key = NilV THEN {Res(NoCell, Panic("nil pointer dereference", key.t), tr)}
    ELSE IF ~AssignableTo(key.t, rv.kt) THEN {Res(NoCell, ErrMapKey(key), tr)}
    ELSE IF key \in DOMAIN rv.m THEN {Res(pushValue(v, rv.m[key]), NoErr, tr)}
    ELSE {Res(pushValue(v, NilV), NoErr, tr)}
  ELSE {Res(NoCell, ErrNotStructOrMap(v.val), tr)}

\* keyQueryEval yielding nil, and no error, for nil and for a nil pointer.
keyQueryEvalPassesNil(key, v, tr) ==
  LET rv == Indirect(v.val) IN
  IF rv.k = "invalid" THEN {Res(pushValue(v, NilV), NoErr, tr)}
  ELSE IF rv.k = "struct" THEN
    IF key.t = "string" THEN
      IF key.s \in DOMAIN rv.f THEN {Res(pushValue(v, rv.f[key.s]), NoErr, tr)}
      ELSE {Res(pushValue(v, NilV), NoErr, tr)}
    ELSE {Res(NoCell, ErrFieldName(key), tr)}
  ELSE IF rv.k = "map" THEN
    IF key = NilV THEN {Res(NoCell, Panic("nil pointer dereference", key.t), tr)}
    ELSE IF ~AssignableTo(key.t, rv.kt) THEN {Res(NoCell, ErrMapKey(key), tr)}
    ELSE IF key \in DOMAIN rv.m THEN {Res(pushValue(v, rv.m[key]), NoErr, tr)}
    ELSE {Res(pushValue(v, NilV), NoErr, tr)}
  ELSE {Res(NoCell, ErrNotStructOrMap(v.val), tr)}

keyQueryEval(key, v, tr) ==
  LET rv == Indirect(v.val) IN
  IF rv.k = "struct" THEN
    IF key.t = "string" THEN
      IF key.s \in DOMAIN rv.f THEN {Res(pushValue(v, rv.f[key.s]), NoErr, tr)}
      ELSE {Res(pushValue(v, NilV), NoErr, tr)}
    ELSE {Res(NoCell, ErrFieldName(key), tr)}
  ELSE IF rv.k = "map" THEN
    IF key = NilV THEN {Res(NoCell, Panic("nil pointer dereference", key.t), tr)}
    ELSE IF ~AssignableTo(key.t, rv.kt) THEN {Res(NoCell, ErrMapKey(key), tr)}
    ELSE IF key \in DOMAIN rv.m THEN {Res(pushValue(v, rv.m[key]), NoErr, tr)}
    ELSE {Res(pushValue(v, NilV), NoErr, tr)}
  ELSE {Res(NoCell, ErrNotStructOrMap(v.val), tr)}

\* EachLoop leaving out an element whose evaluation fails and going on.
EachLoopSkipsFailed(q, v, es, i, vs, tr) ==
  IF i > Len(es) THEN {[vs |-> vs, err |-> NoErr, tr |-> tr]}
  ELSE UNION {IF IsErr(next.err) THEN EachLoopSkipsFailed(q, v, es, i + 1, vs, next.tr)
              ELSE EachLoopSkipsFailed(q, v, es, i + 1, Append(vs, next.cell.val), next.tr)
              : next \in eval(q, pushValue(v, es[i]), tr)}

\* EachLoop putting each result in front of the results before it.
EachLoopPrepends(q, v, es, i, vs, tr) ==
  IF i > Len(es) THEN {[vs |-> vs, err |-> NoErr, tr |-> tr]}
  ELSE UNION {IF IsErr(next.err) THEN {[vs |-> vs, err |-> next.err, tr |-> next.tr]}
              ELSE EachLoopPrepends(q, v, es, i + 1, <<next.cell.val>> \o vs, next.tr)
              : next \in eval(q, pushValue(v, es[i]), tr)}

\* The callback loop of mapQuery.eval over the elements es from the i-th on;
\* vs holds the values appended so far.
EachLoop(q, v, es, i, vs, tr) ==
  IF i > Len(es) THEN {[vs |-> vs, err |-> NoErr, tr |-> tr]}
  ELSE UNION {IF IsErr(next.err) THEN {[vs |-> vs, err |-> next.err, tr |-> next.tr]}
              ELSE EachLoop(q, v, es, i + 1, Append(vs, next.cell.val), next.tr)
              : next \in eval(q, pushValue(v, es[i]), tr)}

mapQueryEval(q, v, tr) ==
  LET it == forEach(v.val) IN
  IF IsErr(it.err) THEN {Res(pushValue(v, IfaceSlice(<< >>)), it.err, tr)}
  ELSE UNION {{Res(pushValue(v, IfaceSlice(l.vs)), l.err, l.tr)
               : l \in EachLoop(q, v, es, 1, << >>, tr)} : es \in it.orders}

\* SelectLoop passing over an element whose result is not a bool.
SelectLoopSkipsNonBool(q, es, i, vs, tr) ==
  IF i > Len(es) THEN {[vs |-> vs, err |-> NoErr, tr |-> tr]}
  ELSE UNION {IF IsErr(r.err) THEN {[vs |-> vs, err |-> r.err, tr |-> r.tr]}
              ELSE IF r.cell.val.t # "bool"
                THEN SelectLoopSkipsNonBool(q, es, i + 1, vs, r.tr)
              ELSE IF r.cell.val.b
                THEN SelectLoopSkipsNonBool(q, es, i + 1, Append(vs, es[i]), r.tr)
              ELSE SelectLoopSkipsNonBool(q, es, i + 1, vs, r.tr)
              : r \in eval(q, newValue(es[i]), tr)}

\* SelectLoop keeping the result of the sub-query instead of its input.
SelectLoopKeepsResult(q, es, i, vs, tr) ==
  IF i > Len(es) THEN {[vs |-> vs, err |-> NoErr, tr |-> tr]}
  ELSE UNION {IF IsErr(r.err) THEN {[vs |-> vs, err |-> r.err, tr |-> r.tr]}
              ELSE IF r.cell.val.t # "bool"
                THEN {[vs |-> vs, err |-> ErrNotBool(r.cell.val), tr |-> r.tr]}
              ELSE IF r.cell.val.b
                THEN SelectLoopKeepsResult(q, es, i + 1, Append(vs, r.cell.val), r.tr)
              ELSE SelectLoopKeepsResult(q, es, i + 1, vs, r.tr)
              : r \in eval(q, newValue(es[i]), tr)}

\* The callback loop of selectQuery.eval.
SelectLoop(q, es, i, vs, tr) ==
  IF i > Len(es) THEN {[vs |-> vs, err |-> NoErr, tr |-> tr]}
  ELSE UNION {IF IsErr(r.err) THEN {[vs |-> vs, err |-> r.err, tr |-> r.tr]}
              ELSE IF r.cell.val.t # "bool"
                THEN {[vs |-> vs, err |-> ErrNotBool(r.cell.val), tr |-> r.tr]}
              ELSE IF r.cell.val.b THEN SelectLoop(q, es, i + 1, Append(vs, es[i]), r.tr)
              ELSE SelectLoop(q, es, i + 1, vs, r.tr)
              : r \in eval(q, newValue(es[i]), tr)}

selectQueryEval(q, v, tr) ==
  LET it == forEach(v.val) IN
  IF IsErr(it.err) THEN {Res(pushValue(v, IfaceSlice(<< >>)), it.err, tr)}
  ELSE UNION {{Res(pushValue(v, IfaceSlice(l.vs)), l.err, l.tr)
               : l \in SelectLoop(q, es, 1, << >>, tr)} : es \in it.orders}

Values(m) == MapV("vql.Values", "string", m)

\* MapLoop returning the error of a sub-query as it is, without the name.
MapLoopBareError(m, ks, i, v, result, tr) ==
  IF i > Len(ks) THEN {Res(pushValue(v, Values(result)), NoErr, tr)}
  ELSE UNION {IF IsErr(val.err) THEN {Res(NoCell, val.err, val.tr)}
              ELSE MapLoopBareError(m, ks, i + 1, v,
                                    [x \in DOMAIN result \cup {StrV(ks[i])} |->
                                       IF x = StrV(ks[i]) THEN val.cell.val ELSE result[x]],
                                    val.tr)
              : val \in eval(m[ks[i]], v, tr)}

\* MapLoop handing each sub-query the result of the sub-query before it.
MapLoopThreads(m, ks, i, v, result, tr) ==
  IF i > Len(ks) THEN {Res(pushValue(v, Values(result)), NoErr, tr)}
  ELSE UNION {IF IsErr(val.err) THEN {Res(NoCell, ErrSubquery(ks[i], val.err), val.tr)}
              ELSE MapLoopThreads(m, ks, i + 1, val.cell,
                                  [x \in DOMAIN result \cup {StrV(ks[i])} |->
                                     IF x = StrV(ks[i]) THEN val.cell.val ELSE result[x]],
                                  val.tr)
              : val \in eval(m[ks[i]], v, tr)}

\* The loop of Map.eval over the names in the order ks, from the i-th on.
MapLoop(m, ks, i, v, result, tr) ==
  IF i > Len(ks) THEN {Res(pushValue(v, Values(result)), NoErr, tr)}
  ELSE UNION {IF IsPanic(val.err) THEN {val}
              ELSE IF IsErr(val.err) THEN {Res(NoCell, ErrSubquery(ks[i], val.err), val.tr)}
              ELSE MapLoop(m, ks, i + 1, v,
                           [x \in DOMAIN result \cup {StrV(ks[i])} |->
                              IF x = StrV(ks[i]) THEN val.cell.val ELSE result[x]],
                           val.tr)
              : val \in eval(m[ks[i]], v, tr)}

MapEval(m, v, tr) ==
  UNION {MapLoop(m, ks, 1, v, << >>, tr) : ks \in Perms(DOMAIN m)}

\* fnQuery.eval: the call of the function on the current value.
fnQueryEval(a, v, tr) ==
  LET valid == v.val # NilV
      arg == IF ~valid THEN ZeroOf(a.argType) ELSE v.val
  IN IF valid /\ ~AssignableTo(v.val.t, a.argType)
       THEN {Res(NoCell, ErrNotAssignable(v.val, a.argType), tr)}
     ELSE IF CallPanics(a.fn, arg)
       THEN {Res(NoCell, Panic("reflect: cannot use as type in Call", arg.t), tr)}
     ELSE LET res == Call(a.fn, arg)
              called == Append(tr, [fn |-> a.fn, arg |-> arg])
          IN IF FuncTable[a.fn].numOut = 2 /\ IsErr(res.err)
               THEN {Res(NoCell, res.err, called)}
             ELSE {Res(pushValue(v, res.res), NoErr, called)}

\* IndexOffset adding the length to every offset.
IndexOffsetAlwaysAdds(q, len) == q + len

\* The offset indexQuery.eval uses for q on a sequence of length len.
IndexOffset(q, len) == IF q < 0 THEN q + len ELSE q

indexQueryEval(q, v, tr) ==
  LET sv == seqValue(v.val) IN
  IF IsErr(sv.err) THEN {Res(NoCell, sv.err, tr)}
  ELSE LET len == Len(sv.rv.e)
           offset == IndexOffset(q, len)
       IN IF offset >= len \/ offset < 0 THEN {Res(NoCell, ErrRange(offset, len), tr)}
          ELSE {Res(pushValue(v, sv.rv.e[offset + 1]), NoErr, tr)}

\* OrEval taking the first candidate without an error, nil or not.
OrEvalAcceptsNil(o, i, v, tr) ==
  IF i > Len(o) THEN {Res(pushValue(v, NilV), NoErr, tr)}
  ELSE UNION {IF ~IsErr(next.err)
                THEN {Res(pushValue(v, next.cell.val), NoErr, next.tr)}
              ELSE OrEvalAcceptsNil(o, i + 1, v, next.tr) : next \in eval(o[i], v, tr)}

\* OrEval evaluating every candidate before it returns the first winner.
OrEvalNoShortCircuit(o, i, v, tr) ==
  IF i > Len(o) THEN {Res(pushValue(v, NilV), NoErr, tr)}
  ELSE UNION {IF ~IsErr(next.err) /\ next.cell.val # NilV
                THEN {Res(pushValue(v, next.cell.val), NoErr, rest.tr)
                      : rest \in OrEvalNoShortCircuit(o, i + 1, v, next.tr)}
              ELSE OrEvalNoShortCircuit(o, i + 1, v, next.tr) : next \in eval(o[i], v, tr)}

\* OrEval passing over a candidate that yields a nil pointer, as it passes
\* over one that yields nil.
OrEvalSkipsNilPointer(o, i, v, tr) ==
  IF i > Len(o) THEN {Res(pushValue(v, NilV), NoErr, tr)}
  ELSE UNION {IF IsPanic(next.err) THEN {next}
              ELSE IF /\ ~IsErr(next.err) /\ next.cell.val # NilV
                      /\ ~(next.cell.val.k = "ptr" /\ next.cell.val.isnil)
                THEN {Res(pushValue(v, next.cell.val), NoErr, next.tr)}
              ELSE OrEvalSkipsNilPointer(o, i + 1, v, next.tr) : next \in eval(o[i], v, tr)}

\* Or.eval from its i-th candidate on.
OrEval(o, i, v, tr) ==
  IF i > Len(o) THEN {Res(pushValue(v, NilV), NoErr, tr)}
  ELSE UNION {IF IsPanic(next.err) THEN {next}
              ELSE IF ~IsErr(next.err) /\ next.cell.val # NilV
                THEN {Res(pushValue(v, next.cell.val), NoErr, next.tr)}
              ELSE OrEval(o, i + 1, v, next.tr) : next \in eval(o[i], v, tr)}

\* ListEval splicing in the elements of a slice result, as Cat does.
ListEvalFlattens(q, i, v, vs, tr) ==
  IF i > Len(q) THEN {Res(pushValue(v, IfaceSlice(vs)), NoErr, tr)}
  ELSE UNION {IF IsErr(next.err) THEN {Res(NoCell, next.err, next.tr)}
              ELSE IF IsSeqKind(next.cell.val)
                THEN ListEvalFlattens(q, i + 1, v, vs \o next.cell.val.e, next.tr)
              ELSE ListEvalFlattens(q, i + 1, v, Append(vs, next.cell.val), next.tr)
              : next \in eval(q[i], v, tr)}

\* List.eval from its i-th element on.
ListEval(q, i, v, vs, tr) ==
  IF i > Len(q) THEN {Res(pushValue(v, IfaceSlice(vs)), NoErr, tr)}
  ELSE UNION {IF IsErr(next.err) THEN {Res(NoCell, next.err, next.tr)}
              ELSE ListEval(q, i + 1, v, Append(vs, next.cell.val), next.tr)
              : next \in eval(q[i], v, tr)}

\* CatEval appending every result as one element, as List does.
CatEvalNoFlatten(c, i, v, vs, tr) ==
  IF i > Len(c) THEN {Res(pushValue(v, IfaceSlice(vs)), NoErr, tr)}
  ELSE UNION {IF IsErr(next.err) THEN {Res(NoCell, next.err, next.tr)}
              ELSE CatEvalNoFlatten(c, i + 1, v, Append(vs, next.cell.val), next.tr)
              : next \in eval(c[i], v, tr)}

\* Cat.eval from its i-th element on.
CatEval(c, i, v, vs, tr) ==
  IF i > Len(c) THEN {Res(pushValue(v, IfaceSlice(vs)), NoErr, tr)}
  ELSE UNION {IF IsErr(next.err) THEN {Res(NoCell, next.err, next.tr)}
              ELSE IF IsSeqKind(next.cell.val)
                THEN CatEval(c, i + 1, v, vs \o next.cell.val.e, next.tr)
              ELSE CatEval(c, i + 1, v, Append(vs, next.cell.val), next.tr)
              : next \in eval(c[i], v, tr)}

\* q.eval(v): dispatch on the dynamic type of the Query.
eval(q, v, tr) ==
  CASE q.op = "Self" -> selfQueryEval(v, tr)
    [] q.op = "Const" -> constQueryEval(q, v, tr)
    [] q.op = "Seq" -> SeqEval(q.qs, 1, v, tr)
    [] q.op = "keyQuery" -> keyQueryEval(q.key, v, tr)
    [] q.op = "mapQuery" -> mapQueryEval(q.q, v, tr)
    [] q.op = "selectQuery" -> selectQueryEval(q.q, v, tr)
    [] q.op = "Map" -> MapEval(q.m, v, tr)
    [] q.op = "fnQuery" -> fnQueryEval(q, v, tr)
    [] q.op = "indexQuery" -> indexQueryEval(q.i, v, tr)
    [] q.op = "Or" -> OrEval(q.qs, 1, v, tr)
    [] q.op = "List" -> ListEval(q.qs, 1, v, << >>, tr)
    [] q.op = "Cat" -> CatEval(q.qs, 1, v, << >>, tr)

\* An outcome of Eval: the value and the error it returns, and the calls it
\* made to wrapped functions.
Outcome(val, err, tr) == [val |-> val, err |-> err, tr |-> tr]

\* Eval(q, v): the set of outcomes the call can have.
Eval(q, input) ==
  {IF IsErr(result.err) THEN Outcome(NilV, result.err, result.tr)
   ELSE Outcome(result.cell.val, NoErr, result.tr)
   : result \in eval(q, newValue(input), << >>)}

\* ------------------------------------------------- inputs and queries
\* The values handed to Eval: the shapes of the package's tests.
SeqsUpTo(S, n) == UNION {[1..len -> S] : len \in 0..n}

Strs(l) == Slice("[]string", [i \in 1..Len(l) |-> StrV(l[i])])

thingy(A, B, S, T) == Struct("thingy", [A |-> StrV(A), B |-> IntV(B), S |-> Strs(S), T |-> T])
t2 == Ptr("*thingy", thingy("bar", 25, <<"apple", "pie">>, NilPtr("*thingy")))
t1 == thingy("foo", 17, <<"pear", "plum", "cherry">>, t2)

IntSlices == {Slice("[]int", e) : e \in SeqsUpTo({IntV(17), IntV(25)}, MaxLen)}
StrSlices == {Slice("[]string", e) : e \in SeqsUpTo({StrV("pear"), StrV("cherry")}, MaxLen)}
votes == [x \in {StrV("yes"), StrV("no")} |-> IF x = StrV("yes") THEN IntV(25) ELSE IntV(17)]
StrMaps == {MapV("map[string]int", "string", [x \in D |-> votes[x]]) : D \in SUBSET DOMAIN votes}
zm == MapV("map[int]string", "int", [x \in {IntV(10)} |-> StrV("ten")])
anyKeyed ==
  MapV("map[interface {}]string", "interface {}",
       [x \in {IntV(10), StrV("yes")} |-> IF x = IntV(10) THEN StrV("ten") ELSE StrV("aye")])
nested == IfaceSlice(<<Strs(<<"pear", "plum">>), StrV("cherry")>>)
flags == IfaceSlice(<<BoolV(TRUE), NilV>>)
mixed ==
  MapV("map[string]interface {}", "string",
       [x \in {StrV("yes"), StrV("no")} |-> IF x = StrV("yes") THEN IntV(25) ELSE StrV("pear")])

Inputs ==
  {NilV, StrV("pear"), IntV(25), t1, t2, NilPtr("*thingy"), zm, mixed, anyKeyed, nested, flags,
   Slice("[]*thingy", <<Ptr("*thingy", t1), t2>>),
   IfaceSlice(<<IntV(25), StrV("pear")>>), IfaceSlice(<<StrV("pear"), IntV(25)>>)}
  \cup IntSlices \cup StrSlices \cup StrMaps

\* The sub-queries the generated combinators are built from.
Atoms ==
  {Self, Const(NilV), Index(0), keyQuery(StrV("B")),
   Func("gt20"), Func("firstOf"), Func("IsNil")}

Elementwise ==
  Atoms \cup {keyQuery(StrV("Key")), keyQuery(StrV("Value")), Func("hasPrefixP"),
              Func("NotNil"), Func("noThanks"), Const(BoolV(TRUE)), Const(IntV(25))}

KeySamples ==
  {StrV("A"), StrV("B"), StrV("T"), StrV("Z"), StrV("yes"), StrV("Key"), IntV(10), IntV(11), NilV}

Names == {"first", "second"}

Inner ==
  {Each(Func("gt20")), Select(<<Func("gt20")>>), SeqQ(<<Index(0), Func("gt20")>>),
   List(<<Self, Func("gt20")>>), Cat(<<Func("gt20"), Self>>), Map([first |-> Func("gt20")])}

ArgLists == SeqsUpTo(Atoms, MaxArgs)

\* A lookup followed by a step that needs no struct, map or sequence.
AfterKey ==
  {SeqQ(<<keyQuery(k), s>>) :
     k \in {StrV("T"), StrV("Z")},
     s \in {Self, Or(<<Self>>), List(<<Self>>), Func("IsNil"), Func("NotNil")}}

\* An Or whose first candidate yields the field T, a pointer.
OrOfField == {Or(<<keyQuery(StrV("T")), a>>) : a \in Atoms}

\* The steps of the nested Seq queries.
Steps == {Self, Index(0), keyQuery(StrV("B")), Func("gt20"), Func("IsNil")}

NestedSeqs ==
  UNION {{SeqQ(<<a, SeqQ(<<b, c>>)>>), SeqQ(<<SeqQ(<<a, b>>), c>>)} : a, b, c \in Steps}
  \cup UNION {{SeqQ(<<SeqQ(<< >>), a>>), SeqQ(<<a, SeqQ(<< >>)>>)} : a \in Atoms}

Queries ==
  {SeqQ(qs) : qs \in ArgLists} \cup {Or(qs) : qs \in ArgLists}
  \cup {List(qs) : qs \in ArgLists} \cup {Cat(qs) : qs \in ArgLists}
  \cup {Each(q) : q \in Elementwise} \cup {Select(<<q>>) : q \in Elementwise}
  \cup {Select(<<keyQuery(StrV("Value")), Func("gt20")>>),
        Each(Key(<<StrV("Value")>>)), Each(SeqQ(<<keyQuery(StrV("Value")), Func("gt20")>>))}
  \cup {Key(<<x>>) : x \in KeySamples} \cup {Key(<<StrV("T"), x>>) : x \in KeySamples}
  \cup {SeqQ(<<Key(<<StrV("T")>>), Key(<<x>>)>>) : x \in KeySamples}
  \cup NestedSeqs \cup AfterKey \cup OrOfField
  \cup {Index(i) : i \in -(MaxLen + 1)..(MaxLen + 1)}
  \cup {Func(f) : f \in FuncNames} \cup {Self, Const(NilV), Const(IntV(25))}
  \cup UNION {{Map([n \in D |-> IF n = "first" THEN a ELSE b]) : a, b \in Atoms} : D \in SUBSET Names}
  \cup UNION {{Or(<<x, a>>), SeqQ(<<x, a>>), List(<<x, a>>), Cat(<<a, x>>)} : x \in Inner, a \in Atoms}
  \cup {Each(x) : x \in Inner} \cup {Or(<<x>>) : x \in Inner}

\* ----------------------------------------------------------- the program
VARIABLES
  query,   \* the Query the caller built
  input,   \* the value the caller evaluates it on
  outs,    \* the outcomes of the Eval calls made so far, in order
  arg,     \* the value the caller hands to Func ("none": Func is not called)
  made,    \* "pending" before Func returns, "panic" when it has panicked,
           \* "built" when the caller holds its Query
  calls    \* the Eval calls that run at the same time on the shared query,
           \* each with its input and the local variables of its frames

vars == <<query, input, outs, arg, made, calls>>

\* The caller holds no Query.
NoQuery == [op |-> "none"]

Init ==
  /\ query \in Queries
  /\ input \in Inputs
  /\ outs = << >>
  /\ arg = "none"
  /\ made = "built"
  /\ calls = << >>

\* One call Eval(query, input).
EvalCall ==
  /\ made = "built"
  /\ Len(outs) < MaxRuns
  /\ \E o \in Eval(query, input) : outs' = Append(outs, o)
  /\ UNCHANGED <<query, input, arg, made, calls>>

Next == EvalCall

Spec == Init /\ [][Next]_vars

\* The caller is about to hand arg to Func.
InitFunc ==
  /\ query = NoQuery
  /\ input \in Inputs
  /\ outs = << >>
  /\ arg \in FuncArgs
  /\ made = "pending"
  /\ calls = << >>

\* The call Func(arg): it panics, or it returns the Query.
FuncCall ==
  /\ made = "pending"
  /\ IF FuncPanics(FuncTable[arg])
       THEN made' = "panic" /\ query' = query
       ELSE made' = "built" /\ query' = Func(arg)
  /\ UNCHANGED <<input, outs, arg, calls>>

NextFunc == FuncCall \/ EvalCall

SpecFunc == InitFunc /\ [][NextFunc]_vars

\* ------------------------------------- concurrent calls on a shared query
\* Several goroutines call Eval on the same Query, each on its own input.
\* The loops of Seq.eval, List.eval and Or.eval at the top of the query take
\* one step per iteration, so that the iterations of different calls
\* interleave; the evaluation of a sub-query is one step.
Callers == 1..MaxCallers

SharedQueries ==
  {Self, Const(IntV(25)), Each(Func("gt20")),
   SeqQ(<<keyQuery(StrV("T")), keyQuery(StrV("A"))>>), SeqQ(<<Index(0), Func("gt20")>>),
   SeqQ(<<Index(0), Const(IntV(25))>>), List(<<Self, Index(0)>>),
   List(<<Const(IntV(25)), Func("gt20")>>), Or(<<Index(0), Self>>),
   Or(<<keyQuery(StrV("Z")), Const(IntV(25))>>),
   Map([first |-> Index(0), second |-> Index(-1)])}

SharedInputs == {NilV, IntV(25), t1, Slice("[]int", <<IntV(17), IntV(25)>>)}

LoopOps == {"Seq", "List", "Or"}

NoOut == [none |-> TRUE]

\* The frame of a call that has not started.
Idle(in) ==
  [input |-> in, pc |-> "idle", i |-> 0, v |-> NoCell, vs |-> << >>, tr |-> << >>,
   cell |-> NoCell, out |-> NoOut, seen |-> {}]

InitShared ==
  /\ query \in SharedQueries
  /\ calls \in [Callers -> {Idle(in) : in \in SharedInputs}]
  /\ input = NilV
  /\ outs = << >>
  /\ arg = "none"
  /\ made = "built"

\* The calls that run while call c takes a step (kept for the record only).
Running(c) == {d \in Callers \ {c} : calls[d].pc = "run"}

\* The local variable v of the first running call in place of call c's own,
\* as if the current value were kept in the query.
CurrentOfFirstRunning(c) ==
  calls[CHOOSE d \in Callers :
          calls[d].pc = "run" /\ \A x \in Callers : calls[x].pc = "run" => d <= x].v
\* The local variable v of the frame of call c.
Current(c) == calls[c].v

\* Eval of call c calls q.eval(newValue(v)).
EvalBegin(c) ==
  /\ calls[c].pc = "idle"
  /\ calls' = [calls EXCEPT ![c].pc = "run", ![c].i = 1, ![c].v = newValue(calls[c].input)]
  /\ UNCHANGED <<query, input, outs, arg, made>>

\* q.eval has returned cell and err to Eval, which returns to its caller.
Finish(f, cell, err, tr) ==
  [f EXCEPT !.pc = "done", !.tr = tr,
            !.cell = IF IsErr(err) THEN NoCell ELSE cell,
            !.out = IF IsErr(err) THEN Outcome(NilV, err, tr) ELSE Outcome(cell.val, NoErr, tr)]

\* Iteration evaluating a sub-query that failed once more.
IterationRetries(op, f, cur, next) ==
  IF IsErr(next.err) THEN f
  ELSE CASE op = "Seq" -> [f EXCEPT !.v = next.cell, !.i = @ + 1, !.tr = next.tr]
         [] op = "List" ->
              [f EXCEPT !.vs = Append(@, next.cell.val), !.i = @ + 1, !.tr = next.tr]
         [] op = "Or" ->
              IF next.cell.val # NilV
                THEN Finish(f, pushValue(cur, next.cell.val), NoErr, next.tr)
              ELSE [f EXCEPT !.i = @ + 1, !.tr = next.tr]

\* One iteration of the loop of Seq.eval, List.eval or Or.eval, with cur the
\* frame's v and next the result of the sub-query.
Iteration(op, f, cur, next) ==
  CASE op = "Seq" ->
         IF IsErr(next.err) THEN Finish(f, cur, next.err, next.tr)
         ELSE [f EXCEPT !.v = next.cell, !.i = @ + 1, !.tr = next.tr]
    [] op = "List" ->
         IF IsErr(next.err) THEN Finish(f, NoCell, next.err, next.tr)
         ELSE [f EXCEPT !.vs = Append(@, next.cell.val), !.i = @ + 1, !.tr = next.tr]
    [] op = "Or" ->
         IF IsPanic(next.err) THEN Finish(f, NoCell, next.err, next.tr)
         ELSE IF ~IsErr(next.err) /\ next.cell.val # NilV
           THEN Finish(f, pushValue(cur, next.cell.val), NoErr, next.tr)
         ELSE [f EXCEPT !.i = @ + 1, !.tr = next.tr]

\* Call c evaluates the next sub-query of the shared query.
EvalStep(c) ==
  /\ calls[c].pc = "run"
  /\ query.op \in LoopOps /\ calls[c].i <= Len(query.qs)
  /\ \E next \in eval(query.qs[calls[c].i], Current(c), calls[c].tr) :
       calls' = [calls EXCEPT ![c] =
                   [Iteration(query.op, calls[c], Current(c), next)
                      EXCEPT !.seen = @ \cup Running(c)]]
  /\ UNCHANGED <<query, input, outs, arg, made>>

\* What q.eval returns after its loop.
AfterLoop(op, f, cur) ==
  CASE op = "Seq" -> Finish(f, cur, NoErr, f.tr)
    [] op = "List" -> Finish(f, pushValue(cur, IfaceSlice(f.vs)), NoErr, f.tr)
    [] op = "Or" -> Finish(f, pushValue(cur, NilV), NoErr, f.tr)

\* Call c returns: after the loop of a Seq, List or Or, or from the eval of
\* any other query, which is one step.
EvalReturn(c) ==
  /\ calls[c].pc = "run"
  /\ IF query.op \in LoopOps
       THEN /\ calls[c].i > Len(query.qs)
            /\ calls' = [calls EXCEPT ![c] =
                           [AfterLoop(query.op, calls[c], Current(c))
                              EXCEPT !.seen = @ \cup Running(c)]]
       ELSE \E res \in eval(query, Current(c), calls[c].tr) :
              calls' = [calls EXCEPT ![c] =
                          [Finish(calls[c], res.cell, res.err, res.tr)
                             EXCEPT !.seen = @ \cup Running(c)]]
  /\ UNCHANGED <<query, input, outs, arg, made>>

NextShared == \E c \in Callers : EvalBegin(c) \/ EvalStep(c) \/ EvalReturn(c)

SpecShared == InitShared /\ [][NextShared]_vars

\* The scheduler lets a call that can take a step take one in the end.
FairShared == SpecShared /\ WF_vars(NextShared)

\* ================================================================ claims
Ran == Len(outs) > 0
Runs == 1..Len(outs)
\* Every call Eval(q, v) has exactly one possible outcome.
Det(q, v) == Cardinality(Eval(q, v)) = 1
TheOutcome(q, v) == CHOOSE o \in Eval(q, v) : TRUE
Failed(o) == IsErr(o.err)

\* ---- C1
RECURSIVE StepsFrom(_, _, _)
\* The outcomes of applying qs[i], qs[i+1], ... one after the other by
\* separate Eval calls, starting from the outcome o of the steps before.
StepsFrom(qs, i, o) ==
  IF i > Len(qs) \/ Failed(o) THEN {o}
  ELSE UNION {StepsFrom(qs, i + 1, Outcome(n.val, n.err, o.tr \o n.tr)) : n \in Eval(qs[i], o.val)}

\* C1: Eval of Seq{q1,...,qn} on v is q1 applied to v, then q2 applied to
\* q1's result, and so on, each step receiving the previous step's result;
\* the empty Seq returns v itself and no error.
C1_SeqComposes ==
  query.op = "Seq" =>
    \A r \in Runs :
      /\ outs[r] \in StepsFrom(query.qs, 1, Outcome(input, NoErr, << >>))
      /\ Len(query.qs) = 0 => outs[r].val = input /\ ~Failed(outs[r])

\* A two-step Seq has succeeded with a result that its second step does not
\* give on the original input.
C1_Witness ==
  /\ query.op = "Seq" /\ Len(query.qs) = 2 /\ Ran
  /\ ~Failed(outs[1])
  /\ \A o \in Eval(query.qs[2], input) : o.val # outs[1].val

\* ---- C2
IsSingleKey(q) == q.op = "Seq" /\ Len(q.qs) = 1 /\ q.qs[1].op = "keyQuery"
\* The record a value is, or refers to.
IsRecord(val) == val.k = "struct" \/ (val.k = "ptr" /\ ~val.isnil /\ val.to.k = "struct")
RecordOf(val) == IF val.k = "ptr" THEN val.to ELSE val

Wins(q, v) == \E o \in Eval(q, v) : ~Failed(o) /\ o.val # NilV
Winners(qs, v) == {i \in 1..Len(qs) : Wins(qs[i], v)}
FirstWinner(qs, v) == CHOOSE i \in Winners(qs, v) : \A j \in Winners(qs, v) : i <= j
AllDet(qs, v) == \A i \in 1..Len(qs) : Det(qs[i], v)

\* C3: Or{q1,...,qn} on v never returns an error; it returns the value of
\* the first candidate that gives, on the same v, no error and a value other
\* than nil, and nil when there is no such candidate.
C3_OrFirstWinner ==
  query.op = "Or" =>
    \A r \in Runs :
      /\ ~Failed(outs[r])
      /\ AllDet(query.qs, input) =>
           outs[r].val = IF Winners(query.qs, input) = {} THEN NilV
                         ELSE TheOutcome(query.qs[FirstWinner(query.qs, input)], input).val

\* An Or has returned the value of its second candidate after its first,
\* a Func, reported an error through its second result.
C3_Witness ==
  /\ query.op = "Or" /\ Len(query.qs) = 2 /\ Ran
  /\ query.qs[1].op = "fnQuery"
  /\ \A o \in Eval(query.qs[1], input) : o.err.e = "func"
  /\ outs[1].val # NilV

\* ---- C4
RECURSIVE CallsUpTo(_, _, _)
\* The calls made by evaluating the candidates qs[1..n] on v, in order.
CallsUpTo(qs, n, v) ==
  IF n = 0 THEN << >> ELSE CallsUpTo(qs, n - 1, v) \o TheOutcome(qs[n], v).tr

\* C4: once a candidate of an Or has won, no later candidate is evaluated:
\* the calls the evaluation makes are those of the candidates up to the
\* winner and no others.
C4_OrShortCircuit ==
  query.op = "Or" /\ AllDet(query.qs, input) /\ Winners(query.qs, input) # {} =>
    \A r \in Runs :
      outs[r].tr = CallsUpTo(query.qs, FirstWinner(query.qs, input), input)

\* An Or has returned its first candidate's value, and its second candidate
\* is a Func that would be called on this input.
C4_Witness ==
  /\ query.op = "Or" /\ Len(query.qs) = 2 /\ Ran
  /\ Winners(query.qs, input) # {} /\ FirstWinner(query.qs, input) = 1
  /\ query.qs[2].op = "fnQuery"
  /\ TheOutcome(query.qs[2], input).tr # << >>
  /\ outs[1].tr = << >>

\* ---- C5
Min(S) == CHOOSE i \in S : \A j \in S : i <= j
Start == Outcome(input, NoErr, << >>)
\* The orders in which the elements of a container can be visited: the one
\* order of a slice, every order of the entries of a map.
ElemOrders(val) ==
  IF val.k = "slice" THEN {val.e}
  ELSE IF val.k = "map"
    THEN {[i \in 1..Len(p) |-> Entry(p[i], val.m[p[i]])] : p \in Perms(DOMAIN val.m)}
  ELSE {}
Elems(val) == UNION {{es[i] : i \in 1..Len(es)} : es \in ElemOrders(val)}

RECURSIVE CallsOnElems(_, _, _)
\* The calls made by evaluating q on the elements es[1..n], in order.
CallsOnElems(q, es, n) ==
  IF n = 0 THEN << >> ELSE CallsOnElems(q, es, n - 1) \o TheOutcome(q, es[n]).tr

RECURSIVE CallsOfNames(_, _, _, _)
\* The calls made by evaluating the sub-queries m[ks[1]], ..., m[ks[n]] on v.
CallsOfNames(m, ks, n, v) ==
  IF n = 0 THEN << >> ELSE CallsOfNames(m, ks, n - 1, v) \o TheOutcome(m[ks[n]], v).tr

\* Eval returns a nil result with every error.
C5_NilWithError == \A r \in Runs : Failed(outs[r]) => outs[r].val = NilV

\* A Seq whose i-th step fails on the result of the steps before it fails
\* with that error, having evaluated the steps up to the i-th and no other.
C5_Seq ==
  query.op = "Seq" =>
    \A i \in 1..Len(query.qs) :
      LET before == StepsFrom(SubSeq(query.qs, 1, i - 1), 1, Start) IN
      \A p \in before :
        (Cardinality(before) = 1 /\ ~Failed(p) /\ Det(query.qs[i], p.val)
           /\ Failed(TheOutcome(query.qs[i], p.val))) =>
          \A r \in Runs :
            /\ outs[r].err = TheOutcome(query.qs[i], p.val).err
            /\ outs[r].tr = p.tr \o TheOutcome(query.qs[i], p.val).tr

\* A List or Cat with a failing sub-query fails with the error of the first
\* one that fails, having evaluated the sub-queries up to it and no other.
C5_ListCat ==
  query.op \in {"List", "Cat"} /\ AllDet(query.qs, input) =>
    LET failing == {i \in 1..Len(query.qs) : Failed(TheOutcome(query.qs[i], input))} IN
    failing # {} =>
      \A r \in Runs :
        /\ outs[r].err = TheOutcome(query.qs[Min(failing)], input).err
        /\ outs[r].tr = CallsUpTo(query.qs, Min(failing), input)

\* The sub-query q of an Each or Select stops the iteration at element x:
\* it fails, or (for Select) it yields something other than a bool.
Stops(x) ==
  \/ Failed(TheOutcome(query.q, x))
  \/ query.op = "selectQuery" /\ TheOutcome(query.q, x).val.t # "bool"

\* An Each or Select with an element that stops the iteration fails, having
\* visited, in one of the possible orders, the elements up to the first such
\* element and no other.
C5_EachSelect ==
  (/\ query.op \in {"mapQuery", "selectQuery"}
   /\ \A x \in Elems(input) : Det(query.q, x)
   /\ \E x \in Elems(input) : Stops(x)) =>
    \A r \in Runs :
      /\ Failed(outs[r])
      /\ \E es \in ElemOrders(input) :
           LET first == Min({i \in 1..Len(es) : Stops(es[i])}) IN
           /\ outs[r].tr = CallsOnElems(query.q, es, first)
           /\ Failed(TheOutcome(query.q, es[first])) =>
                outs[r].err = TheOutcome(query.q, es[first]).err

\* A Map with a failing sub-query fails, having evaluated, in one of the
\* possible orders of its names, the sub-queries up to the first failing one
\* and no other.
C5_Map ==
  (/\ query.op = "Map"
   /\ \A n \in DOMAIN query.m : Det(query.m[n], input)
   /\ \E n \in DOMAIN query.m : Failed(TheOutcome(query.m[n], input))) =>
    \A r \in Runs :
      /\ Failed(outs[r])
      /\ \E ks \in Perms(DOMAIN query.m) :
           LET first == Min({i \in 1..Len(ks) : Failed(TheOutcome(query.m[ks[i]], input))}) IN
           outs[r].tr = CallsOfNames(query.m, ks, first, input)

\* An Or whose candidates all fail returns nil and no error: what a failed
\* candidate had built is not its result.
C5_OrDropsFailed ==
  (/\ query.op = "Or" /\ AllDet(query.qs, input)
   /\ \A i \in 1..Len(query.qs) : Failed(TheOutcome(query.qs[i], input))) =>
    \A r \in Runs : ~Failed(outs[r]) /\ outs[r].val = NilV

\* C5: every combinator other than Or stops at the first sub-evaluation that
\* returns an error and fails; Eval then returns nil with the error, so that
\* no partly built collection reaches the caller as a result.
C5_FailFast ==
  /\ C5_NilWithError /\ C5_Seq /\ C5_ListCat /\ C5_EachSelect /\ C5_Map
  /\ C5_OrDropsFailed

\* An Each has failed on its second element after its first element gave a
\* result and made a call.
C5_Witness ==
  /\ query.op = "mapQuery" /\ input.k = "slice" /\ Len(input.e) = 2 /\ Ran
  /\ \A o \in Eval(query.q, input.e[1]) : ~Failed(o) /\ o.tr # << >>
  /\ \A o \in Eval(query.q, input.e[2]) : Failed(o)
  /\ Failed(outs[1]) /\ outs[1].val = NilV

\* ---- C6
\* C6: on a sequence of length n, Index(i) returns element i for 0 <= i < n
\* and element n+i for -n <= i < 0, and fails for every other i.
C6_Index ==
  query.op = "indexQuery" /\ input.k = "slice" =>
    LET n == Len(input.e)
        i == query.i
    IN \A r \in Runs :
         /\ 0 <= i /\ i < n => ~Failed(outs[r]) /\ outs[r].val = input.e[i + 1]
         /\ -n <= i /\ i < 0 => ~Failed(outs[r]) /\ outs[r].val = input.e[n + i + 1]
         /\ i >= n \/ i < -n => outs[r].err.e = "is out of range for 0.." /\ outs[r].val = NilV

\* Index(-1) has returned the last of two different elements.
C6_Witness ==
  /\ query.op = "indexQuery" /\ query.i = -1 /\ Ran
  /\ input.k = "slice" /\ Len(input.e) = 2 /\ input.e[1] # input.e[2]
  /\ outs[1].val = input.e[2]

\* ---- C7
IsTrue(o) == ~Failed(o) /\ o.val = BoolV(TRUE)
IsBoolean(o) == ~Failed(o) /\ o.val.t = "bool"

\* C7: Select(p) returns exactly the elements on which p is true, as the
\* elements themselves and in their order in the input (for a map: the
\* entries on which p is true, each once, in some order).
C7_Select ==
  (/\ query.op = "selectQuery"
   /\ \A x \in Elems(input) : Det(query.q, x) /\ IsBoolean(TheOutcome(query.q, x))) =>
    LET Keep(x) == IsTrue(TheOutcome(query.q, x)) IN
    \A r \in Runs :
      /\ input.k = "slice" =>
           ~Failed(outs[r]) /\ outs[r].val = IfaceSlice(SelectSeq(input.e, Keep))
      /\ input.k = "map" =>
           /\ ~Failed(outs[r])
           /\ \E es \in ElemOrders(input) : outs[r].val = IfaceSlice(SelectSeq(es, Keep))

\* A Select has kept one of two elements, and what it returned is the
\* element and not the predicate's result.
C7_Witness ==
  /\ query.op = "selectQuery" /\ Ran /\ ~Failed(outs[1])
  /\ input.k = "slice" /\ Len(input.e) = 2
  /\ outs[1].val = IfaceSlice(<<input.e[2]>>)
  /\ input.e[2] # BoolV(TRUE)

\* ---- C8
\* C8: Each(q) on a sequence of n elements returns n results, the i-th the
\* result of q on element i; on an empty sequence it returns an empty
\* collection.
C8_Each ==
  (/\ query.op = "mapQuery" /\ input.k = "slice"
   /\ \A x \in Elems(input) : Det(query.q, x) /\ ~Failed(TheOutcome(query.q, x))) =>
    \A r \in Runs :
      /\ ~Failed(outs[r])
      /\ outs[r].val.k = "slice"
      /\ Len(outs[r].val.e) = Len(input.e)
      /\ \A i \in 1..Len(input.e) : outs[r].val.e[i] = TheOutcome(query.q, input.e[i]).val
      /\ Len(input.e) = 0 => outs[r].val = IfaceSlice(<< >>)

\* An Each has returned two different results for two elements.
C8_Witness ==
  /\ query.op = "mapQuery" /\ Ran /\ ~Failed(outs[1])
  /\ input.k = "slice" /\ Len(input.e) = 2
  /\ Len(outs[1].val.e) = 2 /\ outs[1].val.e[1] # outs[1].val.e[2]

\* ---- C9
\* C9: every Eval call on the same query and the same input has the same
\* outcome: the same value, or the same error.
C9_Repeatable ==
  \A i, j \in Runs : outs[i].val = outs[j].val /\ outs[i].err = outs[j].err

\* ---- C10
\* What Eval returns for the Map m on v when the names of m are visited in
\* the order ks.
MapInOrder(m, ks, v) ==
  {<<IF IsErr(r.err) THEN NilV ELSE r.cell.val, r.err>>
   : r \in MapLoop(m, ks, 1, newValue(v), << >>, << >>)}

\* C10: what Eval returns for a Map, the name-to-value mapping or the error,
\* is the same whatever the order in which the names are visited.
C10_MapOrderIrrelevant ==
  query.op = "Map" =>
    \A r \in Runs : \A ks \in Perms(DOMAIN query.m) :
      <<outs[r].val, outs[r].err>> \in MapInOrder(query.m, ks, input)

\* ---- C11
\* C11: a Map evaluates each of its sub-queries on the same current value;
\* when none fails, the result binds exactly the names of the Map, each to
\* the value of its sub-query on that value, nil included.
C11_MapBinds ==
  (/\ query.op = "Map"
   /\ \A n \in DOMAIN query.m :
        Det(query.m[n], input) /\ ~Failed(TheOutcome(query.m[n], input))) =>
    \A r \in Runs :
      /\ ~Failed(outs[r])
      /\ outs[r].val.k = "map"
      /\ DOMAIN outs[r].val.m = {StrV(n) : n \in DOMAIN query.m}
      /\ \A n \in DOMAIN query.m : outs[r].val.m[StrV(n)] = TheOutcome(query.m[n], input).val

\* A Map of two names has bound one name to nil and the other to a value
\* that is not nil.
C11_Witness ==
  /\ query.op = "Map" /\ DOMAIN query.m = Names /\ Ran /\ ~Failed(outs[1])
  /\ outs[1].val.m[StrV("first")] = NilV
  /\ outs[1].val.m[StrV("second")] # NilV

\* ---- C12
\* What the result val of a sub-query contributes to a Cat: its elements when
\* it is a slice, itself as one element otherwise.
Contribution(val) == IF IsSeqKind(val) THEN val.e ELSE <<val>>

RECURSIVE Contributions(_, _, _)
\* The contributions of the sub-queries qs[1..n] on v, one after the other.
Contributions(qs, n, v) ==
  IF n = 0 THEN << >>
  ELSE Contributions(qs, n - 1, v) \o Contribution(TheOutcome(qs[n], v).val)

NoneFails(qs, v) == \A i \in 1..Len(qs) : ~Failed(TheOutcome(qs[i], v))

\* C12: Cat{q1,...,qn} returns, in the order of the sub-queries, the elements
\* of each result that is a slice and each other result as one element;
\* elements that are slices themselves stay whole, and without sub-queries
\* the collection is empty.
C12_CatConcatenates ==
  query.op = "Cat" /\ AllDet(query.qs, input) /\ NoneFails(query.qs, input) =>
    \A r \in Runs :
      /\ ~Failed(outs[r])
      /\ outs[r].val = IfaceSlice(Contributions(query.qs, Len(query.qs), input))
      /\ Len(query.qs) = 0 => outs[r].val = IfaceSlice(<< >>)

\* A Cat has spliced in a slice whose first element is itself a slice, and
\* that element is still a slice in the result.
C12_Witness ==
  /\ query.op = "Cat" /\ Len(query.qs) = 2 /\ Ran /\ ~Failed(outs[1])
  /\ input = nested
  /\ Len(outs[1].val.e) = 3
  /\ outs[1].val.e[1] = Strs(<<"pear", "plum">>)

\* ---- C13
\* C13: List{q1,...,qn} returns n values, the i-th the result of qi on the
\* same current value, a slice result being one element; without
\* sub-queries the collection is empty.
C13_ListCollects ==
  query.op = "List" /\ AllDet(query.qs, input) /\ NoneFails(query.qs, input) =>
    \A r \in Runs :
      /\ ~Failed(outs[r])
      /\ outs[r].val.t = "[]interface {}"
      /\ Len(outs[r].val.e) = Len(query.qs)
      /\ \A i \in 1..Len(query.qs) : outs[r].val.e[i] = TheOutcome(query.qs[i], input).val

\* A List of two sub-queries has returned two elements, the first a slice of
\* two elements.
C13_Witness ==
  /\ query.op = "List" /\ Len(query.qs) = 2 /\ Ran /\ ~Failed(outs[1])
  /\ Len(outs[1].val.e) = 2
  /\ outs[1].val.e[1].k = "slice" /\ Len(outs[1].val.e[1].e) = 2

\* ---- C14
\* What a caller of Eval tells apart: the value, and whether there is an error.
Seen(o) == [val |-> o.val, failed |-> Failed(o)]
SeenOf(q, v) == {Seen(o) : o \in Eval(q, v)}

IsPair(q) == q.op = "Seq" /\ Len(q.qs) = 2
IsEmptySeq(q) == q.op = "Seq" /\ Len(q.qs) = 0

\* C14: Seq{a, Seq{b, c}} and Seq{Seq{a, b}, c} give the same value or both
\* an error on every input, and so do Seq{Seq{}, a}, Seq{a, Seq{}} and a.
C14_SeqAssociative ==
  /\ (IsPair(query) /\ IsPair(query.qs[2])) =>
       \A r \in Runs :
         Seen(outs[r]) \in SeenOf(SeqQ(<<SeqQ(<<query.qs[1], query.qs[2].qs[1]>>),
                                         query.qs[2].qs[2]>>), input)
  /\ (IsPair(query) /\ IsPair(query.qs[1])) =>
       \A r \in Runs :
         Seen(outs[r]) \in SeenOf(SeqQ(<<query.qs[1].qs[1],
                                         SeqQ(<<query.qs[1].qs[2], query.qs[2]>>)>>), input)
  /\ (IsPair(query) /\ IsEmptySeq(query.qs[1])) =>
       \A r \in Runs : Seen(outs[r]) \in SeenOf(query.qs[2], input)
  /\ (IsPair(query) /\ IsEmptySeq(query.qs[2])) =>
       \A r \in Runs : Seen(outs[r]) \in SeenOf(query.qs[1], input)

\* Seq{a, Seq{b, c}} has returned a value that is neither the input nor nil,
\* with a, b and c three different steps.
C14_Witness ==
  /\ IsPair(query) /\ IsPair(query.qs[2]) /\ Ran /\ ~Failed(outs[1])
  /\ Cardinality({query.qs[1], query.qs[2].qs[1], query.qs[2].qs[2]}) = 3
  /\ Self \notin {query.qs[1], query.qs[2].qs[1], query.qs[2].qs[2]}
  /\ outs[1].val \notin {input, NilV}

\* ---- C15
\* The key lists the queries of the model are built from.
KeyLists == {<<x>> : x \in KeySamples} \cup {<<StrV("T"), x>> : x \in KeySamples}

\* Seq{Key(k1), ..., Key(kn)}.
SeqOfKeys(ks) == SeqQ([i \in 1..Len(ks) |-> Key(<<ks[i]>>)])

\* C15: Key(k1, ..., kn) and Seq{Key(k1), ..., Key(kn)} give the same
\* outcome, value and error, on every input.
C15_KeyIsSeqOfKeys ==
  \A ks \in KeyLists :
    /\ query = Key(ks) => \A r \in Runs : outs[r] \in Eval(SeqOfKeys(ks), input)
    /\ query = SeqOfKeys(ks) => \A r \in Runs : outs[r] \in Eval(Key(ks), input)

\* Key("T", "A") has followed the pointer in field T and returned the name
\* of the record behind it.
C15_Witness ==
  /\ query = Key(<<StrV("T"), StrV("A")>>) /\ input = t1 /\ Ran
  /\ outs[1].val = StrV("bar")
  /\ outs[1] \in Eval(SeqOfKeys(<<StrV("T"), StrV("A")>>), input)

\* ---- C16
\* The predicate of the Select yields, on element x, a result that is not a
\* bool: nil, or a value of another type.
NotBoolOn(x) == \A o \in Eval(query.q, x) : ~Failed(o) /\ o.val.t # "bool"

\* C16: a Select whose predicate yields something other than a bool on some
\* element fails, a nil result included; when the predicate itself fails on
\* no element, the error is the one that names the result's type.
C16_SelectNeedsBool ==
  (query.op = "selectQuery" /\ \E x \in Elems(input) : NotBoolOn(x)) =>
    \A r \in Runs :
      /\ Failed(outs[r]) /\ outs[r].val = NilV
      /\ (\A x \in Elems(input) : \A o \in Eval(query.q, x) : ~Failed(o)) =>
           outs[r].err.e = "select query yielded, not bool"

\* A Select has failed on a sequence of two elements because its predicate
\* yields nil on the second, after yielding a bool on the first.
C16_Witness ==
  /\ query.op = "selectQuery" /\ Ran /\ input.k = "slice" /\ Len(input.e) = 2
  /\ \A o \in Eval(query.q, input.e[1]) : IsBoolean(o)
  /\ \A o \in Eval(query.q, input.e[2]) : ~Failed(o) /\ o.val = NilV
  /\ outs[1].err.e = "select query yielded, not bool"

\* ---- C17
\* C17: a Func query calls its function once, on the current value, or on
\* the zero value of the parameter type when the current value is nil; it
\* fails with the function's error when that is not nil, and returns the
\* function's first result otherwise. A current value that is not assignable
\* to the parameter type makes it fail and the function is not called.
C17_FuncApplies ==
  query.op = "fnQuery" =>
    LET fits == input = NilV \/ AssignableTo(input.t, query.argType)
        given == IF input = NilV THEN ZeroOf(query.argType) ELSE input
    IN \A r \in Runs :
         /\ ~fits => /\ outs[r].err.e = "is not assignable to"
                     /\ outs[r].val = NilV /\ outs[r].tr = << >>
         /\ fits => /\ outs[r].tr = <<[fn |-> query.fn, arg |-> given]>>
                    /\ IF IsErr(Call(query.fn, given).err)
                         THEN outs[r].err = Call(query.fn, given).err /\ outs[r].val = NilV
                       ELSE ~Failed(outs[r]) /\ outs[r].val = Call(query.fn, given).res

\* ---- C18
\* The two shapes of function the documentation of Func names.
GoodShape(sig) ==
  /\ sig.isFunc /\ sig.numIn = 1
  /\ sig.numOut = 1 \/ (sig.numOut = 2 /\ sig.lastIsErr)

\* C18: Func panics, and returns no query, exactly for the arguments that
\* are not a function of one parameter with one result or with two results
\* of which the second is error; the query it returns for every other
\* argument never fails on the function's signature while it is evaluated.
C18_FuncValidates ==
  made # "pending" =>
    /\ made = "panic" <=> ~GoodShape(FuncTable[arg])
    /\ made = "panic" => query = NoQuery /\ outs = << >>
    /\ made = "built" =>
         /\ query = Func(arg)
         /\ \A r \in Runs : outs[r].err.e \in {"none", "is not assignable to", "func"}

\* ---- C19
\* The key fits the key type of a map: its type is assignable to it, and a
\* nil key, which has no type, fits an interface key type only.
KeyFits(key, kt) == IF key = NilV THEN kt = "interface {}" ELSE AssignableTo(key.t, kt)

\* C19: Key(k) returns an error, and no value, when k is not a string and the
\* current value is a record, and when k does not fit the key type of the
\* current map; with a key that fits, Key on a map does not fail.
C19_KeyTypeChecked ==
  IsSingleKey(query) =>
    LET key == query.qs[1].key IN
    \A r \in Runs :
      /\ IsRecord(input) /\ key.t # "string" =>
           outs[r].err.e = "cannot be a field name" /\ outs[r].val = NilV
      /\ input.k = "map" /\ ~KeyFits(key, input.kt) =>
           outs[r].err.e = "cannot be a key in this map" /\ outs[r].val = NilV
      /\ input.k = "map" /\ KeyFits(key, input.kt) => ~Failed(outs[r])

\* ---- C20
\* C20: Key on a value that is neither a record nor a map (nor a reference to
\* one), Index on a value that is not a sequence, and Each and Select on a
\* value that is neither a sequence nor a map fail with an error that names
\* the mismatch, and Eval returns no value with it.
C20_ShapeMismatchFails ==
  \A r \in Runs :
    /\ IsSingleKey(query) /\ Indirect(input).k \notin {"struct", "map"} =>
         outs[r].err.e = "is not a struct or map" /\ outs[r].val = NilV
    /\ query.op = "indexQuery" /\ input.k \notin {"array", "slice"} =>
         outs[r].err.e = "is not an array or slice" /\ outs[r].val = NilV
    /\ query.op \in {"mapQuery", "selectQuery"} /\ input.k \notin {"array", "slice", "map"} =>
         outs[r].err.e = "is not an array, map, or slice" /\ outs[r].val = NilV

\* An Each on a string has failed with the error of forEach and returned
\* no value.
C20_Witness ==
  /\ query.op = "mapQuery" /\ input = StrV("pear") /\ Ran
  /\ outs[1].err = ErrNotContainer(input) /\ outs[1].val = NilV

\* ---- C21
\* The Each and the Select whose sub-query reads the value of an entry and
\* calls gt20 on it.
ValueGt20 == <<keyQuery(StrV("Value")), Func("gt20")>>
\* The calls of gt20 on the values of the map m, its keys taken in order p.
Gt20Calls(m, p) == [i \in 1..Len(p) |-> [fn |-> "gt20", arg |-> m[p[i]]]]

\* C21: over a map, Each and Select evaluate their sub-query once for every
\* entry, on an Entry that holds the key and the value of the entry, so that
\* Key("Key") and Key("Value") in the sub-query give the two; over a
\* sequence the sub-query gets each element as it is.
C21_EntryPairs ==
  \A r \in Runs :
    /\ (query.op = "mapQuery" /\ input.k = "map") =>
         \E p \in Perms(DOMAIN input.m) :
           /\ query.q = Self =>
                outs[r].val = IfaceSlice([i \in 1..Len(p) |-> Entry(p[i], input.m[p[i]])])
           /\ query.q = keyQuery(StrV("Key")) => outs[r].val = IfaceSlice(p)
           /\ query.q \in {keyQuery(StrV("Value")), Key(<<StrV("Value")>>)} =>
                outs[r].val = IfaceSlice([i \in 1..Len(p) |-> input.m[p[i]]])
           /\ (query.q = SeqQ(ValueGt20) /\ input.t = "map[string]int") =>
                /\ outs[r].tr = Gt20Calls(input.m, p)
                /\ outs[r].val = IfaceSlice([i \in 1..Len(p) |-> BoolV(input.m[p[i]].n > 20)])
    /\ (query = Select(ValueGt20) /\ input.k = "map" /\ input.t = "map[string]int") =>
         \E p \in Perms(DOMAIN input.m) :
           /\ outs[r].tr = Gt20Calls(input.m, p)
           /\ outs[r].val =
                IfaceSlice(SelectSeq([i \in 1..Len(p) |-> Entry(p[i], input.m[p[i]])],
                                     LAMBDA e : e.f.Value.n > 20))
    /\ (query.op = "mapQuery" /\ query.q = Self /\ input.k = "slice") =>
         outs[r].val = IfaceSlice(input.e)

\* An Each over a map of two entries has called gt20 twice, once on the
\* value of each entry.
C21_Witness ==
  /\ query = Each(SeqQ(ValueGt20)) /\ input.k = "map" /\ Ran
  /\ Cardinality(DOMAIN input.m) = 2
  /\ Len(outs[1].tr) = 2 /\ outs[1].tr[1].arg # outs[1].tr[2].arg
  /\ Len(outs[1].val.e) = 2

\* ---- C22
\* C22: a Map with a failing sub-query fails with an error that names a
\* sub-query that fails on the current value and carries the error of that
\* sub-query.
C22_MapNamesFailure ==
  (/\ query.op = "Map"
   /\ \A n \in DOMAIN query.m : Det(query.m[n], input)
   /\ \E n \in DOMAIN query.m : Failed(TheOutcome(query.m[n], input))) =>
    \A r \in Runs :
      /\ outs[r].err.e = "evaluating subquery"
      /\ outs[r].err.name \in DOMAIN query.m
      /\ Failed(TheOutcome(query.m[outs[r].err.name], input))
      /\ outs[r].err.inner = TheOutcome(query.m[outs[r].err.name], input).err

\* A Map of two names, of which only "second" fails, has failed with an
\* error that names "second".
C22_Witness ==
  /\ query.op = "Map" /\ DOMAIN query.m = Names /\ Ran
  /\ \A o \in Eval(query.m["first"], input) : ~Failed(o)
  /\ outs[1].err.e = "evaluating subquery" /\ outs[1].err.name = "second"
  /\ outs[1].err.inner.e = "is not an array or slice"

\* ---- C23
\* The error err wraps the error inner and tells the position pos.
WrapsAt(err, pos, inner) ==
  err.e = "evaluating subquery" /\ err.name = pos /\ err.inner = inner

\* C23: when a sub-query of a List or Cat fails, or the sub-query of an Each
\* or Select fails on an element of a sequence, the error of the combinator
\* wraps the error of the sub-query with the position of the sub-query or of
\* the element.
C23_PositionWrapped ==
  /\ (query.op \in {"List", "Cat"} /\ AllDet(query.qs, input)) =>
       LET failing == {i \in 1..Len(query.qs) : Failed(TheOutcome(query.qs[i], input))} IN
       failing # {} =>
         \A r \in Runs :
           WrapsAt(outs[r].err, Min(failing), TheOutcome(query.qs[Min(failing)], input).err)
  /\ (/\ query.op \in {"mapQuery", "selectQuery"} /\ input.k = "slice"
      /\ \A x \in Elems(input) : Det(query.q, x)) =>
       LET failing == {i \in 1..Len(input.e) : Failed(TheOutcome(query.q, input.e[i]))} IN
       (failing # {} /\ \A i \in 1..(Min(failing) - 1) : ~Stops(input.e[i])) =>
         \A r \in Runs :
           WrapsAt(outs[r].err, Min(failing), TheOutcome(query.q, input.e[Min(failing)]).err)

\* ---- C24
\* C24: Eval(Self, v) returns v and no error for every v, nil included, and
\* calls nothing.
C24_SelfIsIdentity ==
  query = Self => \A r \in Runs : outs[r] = Outcome(input, NoErr, << >>)

\* Self has returned nil for a nil input, without an error.
C24_Witness ==
  /\ query = Self /\ input = NilV /\ Ran
  /\ outs[1].val = NilV /\ ~Failed(outs[1])

\* ---- C25
IsConst(q) == q.op = "Const"

\* C25: Const(c) returns c and no error on every input, and it does so at
\* every place of a query where it is evaluated: as each sub-query of a List,
\* as the last step of a Seq whose earlier steps succeed, and once for each
\* element of an Each.
C25_ConstIsConstant ==
  \A r \in Runs :
    /\ IsConst(query) => outs[r] = Outcome(query.value.val, NoErr, << >>)
    /\ (query.op = "List" /\ ~Failed(outs[r])) =>
         \A i \in 1..Len(query.qs) :
           IsConst(query.qs[i]) => outs[r].val.e[i] = query.qs[i].value.val
    /\ (query.op = "Seq" /\ Len(query.qs) > 0 /\ ~Failed(outs[r])) =>
         (IsConst(query.qs[Len(query.qs)]) =>
            outs[r].val = query.qs[Len(query.qs)].value.val)
    /\ (query.op = "mapQuery" /\ IsConst(query.q) /\ input.k \in {"slice", "map"}) =>
         /\ ~Failed(outs[r])
         /\ Len(outs[r].val.e) = (IF input.k = "slice" THEN Len(input.e)
                                  ELSE Cardinality(DOMAIN input.m))
         /\ \A i \in 1..Len(outs[r].val.e) : outs[r].val.e[i] = query.q.value.val

\* An Each of a Const has returned the constant twice for a sequence of two
\* elements, neither of which is the constant.
C25_Witness ==
  /\ query = Each(Const(IntV(25))) /\ Ran
  /\ input.k = "slice" /\ Len(input.e) = 2
  /\ IntV(25) \notin {input.e[1], input.e[2]}
  /\ outs[1].val = IfaceSlice(<<IntV(25), IntV(25)>>)

\* ---- C26
\* Every call that has returned has the outcome of a call that runs alone on
\* its input.
AsAlone == \A c \in Callers : calls[c].pc = "done" => calls[c].out \in Eval(query, calls[c].input)

\* C26: no step of a call writes the shared query, and however the steps of
\* the calls interleave, each call returns an outcome it can return when it
\* runs alone on its input.
C26_SharedQuery == [][query' = query]_vars /\ []AsAlone

\* Two calls on different inputs have both returned, each after steps taken
\* while the other was running, with different values.
C26_Witness ==
  /\ calls # << >>
  /\ calls[1].pc = "done" /\ calls[2].pc = "done"
  /\ 2 \in calls[1].seen /\ 1 \in calls[2].seen
  /\ calls[1].input # calls[2].input
  /\ ~Failed(calls[1].out) /\ ~Failed(calls[2].out)
  /\ calls[1].out.val # calls[2].out.val

\* ---- C27
RECURSIVE Chain(_)
\* The cells reachable from cell through the parent links, cell included.
Chain(cell) == IF cell = NoCell THEN {} ELSE {cell} \cup Chain(cell.parent)

\* The cells call c holds: its current cell, the cell its query returned,
\* and their parents.
CellsOf(c) == Chain(calls[c].v) \cup Chain(calls[c].cell)

\* C27: every cell a call holds, as its current cell, as the cell its query
\* returned or as a parent of one of them, was constructed during that call
\* (site "eval"), and not when the shared query was built (site "const"), so
\* that no cell is reachable from two calls.
C27_CellsNotShared ==
  \A c \in Callers : \A x \in CellsOf(c) : x.site = "eval"

\* ---- C28
\* A result that stands for "nothing there": nil, or a nil pointer.
Absent(val) == val = NilV \/ (val.k = "ptr" /\ val.isnil)

IsKeyPair(q) == IsPair(q) /\ q.qs[1].op = "keyQuery" /\ q.qs[2].op = "keyQuery"

\* C28: when Key(k1) yields nil or a nil pointer, Key(k1, k2) fails with the
\* error of a value that is not a struct or map, while Self, Or, List and a
\* function of interface{} after Key(k1) do not fail and get that result.
C28_NilStopsAtKey ==
  \A r \in Runs :
    /\ IsKeyPair(query) =>
         \A o \in Eval(Key(<<query.qs[1].key>>), input) :
           (~Failed(o) /\ Absent(o.val)) =>
             outs[r].err.e = "is not a struct or map" /\ outs[r].val = NilV
    /\ query \in AfterKey =>
         \A o \in Eval(Key(<<query.qs[1].key>>), input) :
           (~Failed(o) /\ Absent(o.val)) =>
             /\ ~Failed(outs[r])
             /\ query.qs[2] \in {Self, Or(<<Self>>)} => outs[r].val = o.val
             /\ query.qs[2] = List(<<Self>>) => outs[r].val = IfaceSlice(<<o.val>>)
             /\ query.qs[2] = Func("IsNil") => outs[r].val = BoolV(o.val = NilV)
             /\ query.qs[2] = Func("NotNil") => outs[r].val = BoolV(o.val # NilV)

\* Key("T", "A") has failed on a record whose field T is a nil pointer.
C28_Witness ==
  /\ query = Key(<<StrV("T"), StrV("A")>>) /\ input = t2 /\ Ran
  /\ \A o \in Eval(Key(<<StrV("T")>>), input) : o.val = NilPtr("*thingy") /\ ~Failed(o)
  /\ outs[1].err.e = "is not a struct or map"

\* ---- C29
AllDone == \A c \in Callers : calls[c].pc = "done"

\* The most calls of functions the query q can make on the input in: one for
\* each Func among the sub-queries of a Seq, List or Or, one for each element
\* for an Each of a Func, one for a Func.
CallBound(q, in) ==
  CASE q.op \in LoopOps -> Cardinality({i \in 1..Len(q.qs) : q.qs[i].op = "fnQuery"})
    [] q.op = "mapQuery" /\ q.q.op = "fnQuery" -> IF in.k = "slice" THEN Len(in.e) ELSE 0
    [] q.op = "fnQuery" -> 1
    [] OTHER -> 0

\* A call has made no more calls of functions than CallBound allows.
WithinBound ==
  \A c \in Callers : Len(calls[c].tr) <= CallBound(query, calls[c].input)

\* A step moves a call to its next sub-query or leaves it where it is, and a
\* call that has returned is not run again.
NoRevisit ==
  \A c \in Callers :
    /\ calls'[c].i \in {calls[c].i, calls[c].i + 1}
    /\ calls[c].pc = "done" => calls'[c] = calls[c]

IsNilPointer(val) == val.k = "ptr" /\ val.isnil

\* C30: a candidate of an Or that succeeds with a nil pointer wins when no
\* candidate before it does: the Or returns the nil pointer, not nil, and
\* evaluates no later candidate.
C30_NilPointerWins ==
  (query.op = "Or" /\ AllDet(query.qs, input)) =>
    \A i \in 1..Len(query.qs) :
      (/\ ~Failed(TheOutcome(query.qs[i], input))
       /\ IsNilPointer(TheOutcome(query.qs[i], input).val)
       /\ \A j \in 1..(i - 1) :
            Failed(TheOutcome(query.qs[j], input)) \/ TheOutcome(query.qs[j], input).val = NilV) =>
        \A r \in Runs :
          /\ ~Failed(outs[r])
          /\ outs[r].val = TheOutcome(query.qs[i], input).val
          /\ outs[r].val # NilV
          /\ outs[r].tr = CallsUpTo(query.qs, i, input)

\* An Or has returned the nil pointer of field T and has not called the
\* function that is its second candidate.
C30_Witness ==
  /\ query = Or(<<keyQuery(StrV("T")), Func("IsNil")>>) /\ input = t2 /\ Ran
  /\ outs[1].val = NilPtr("*thingy") /\ outs[1].tr = << >>

====
